---- MODULE Spec2Model ----
(***************************************************************************)
(* Motion supervisor of a single stepper axis (src/src/main.cpp).          *)
(*                                                                         *)
(* Three tasks share the command queue qCmd: StepTask (the supervisor, the *)
(* only writer of the g_* motion variables), ConsoleTask (blocking         *)
(* xQueueSend) and WebTask (non-blocking qSend).  The FastAccelStepper     *)
(* engine is an external library; it is modelled by the four facts the     *)
(* supervisor relies on: run*() makes isRunning() true, stopMove() starts  *)
(* a deceleration during which isRunning() stays true, the deceleration    *)
(* ends asynchronously, and setSpeedInHz/setAcceleration latch a value.    *)
(*                                                                         *)
(* Integers: all payloads are uint32_t in the source.  The model checker   *)
(* computes with 32-bit signed integers, so payloads are drawn below 2^31; *)
(* the only arithmetic, diff * 1000 / ms with diff <= 399999, stays far    *)
(* below that and never wraps in the source either (it is done in 64 bit). *)
(***************************************************************************)
EXTENDS Integers, Sequences, FiniteSets, TLC

VARIABLES
    g_userFreq,   \* Hz
    g_accel,      \* Hz/s
    g_dir,        \* 0/1, the applied direction
    g_en,         \* 0/1
    g_alarm,      \* latched alarm level
    g_runReq,     \* run intent
    g_dirPend,    \* a direction change waits for the engine to stop
    g_dirNext,    \* the direction that waits
    pinDir,       \* level of PIN_DIR as written by applyDirPin (0 LOW, 1 HIGH)
    pinEn,        \* level of PIN_EN as written by applyEnablePin (0 LOW, 1 HIGH)
    engRunning,   \* stepper->isRunning()
    engStopping,  \* stopMove() issued, deceleration not finished
    engDir,       \* direction of the last run call (0 forward, 1 backward)
    engSpeed,     \* last value given to setSpeedInHz
    engAccel,     \* last value given to setAcceleration
    qCmd,         \* the command queue, head first
    pc,           \* position of StepTask in its loop body
    calls,        \* engine and pin calls made by the last StepTask step, in order
    last,         \* the last StepTask step: what it was and what it consumed
    pre,          \* MotionState and engine as they were before the last StepTask step
    hold,         \* history: a run intent interrupted by an alarm / by a disable
    preHold,      \* hold as it was before the last StepTask step
    httpResp,     \* the answer of an HTTP command handler on its way to the client
    consWait,     \* the command ConsoleTask is blocked in xQueueSend with, or NoCmd
    fifo          \* history: the commands enqueued and the commands applied, in order

motionVars == <<g_userFreq, g_accel, g_dir, g_en, g_alarm, g_runReq, g_dirPend, g_dirNext>>
pinVars    == <<pinDir, pinEn>>
engVars    == <<engRunning, engStopping, engDir, engSpeed, engAccel>>
ghostVars  == <<calls, last, pre, hold, preHold>>
vars == <<motionVars, pinVars, engVars, qCmd, pc, ghostVars, httpResp, consWait, fifo>>

----------------------------------------------------------------------------
(* Program constants *)

FREQ_MAX  == 400000
ACCEL_MAX == 2000000
RAMP_MS_MIN == 50
RAMP_MS_MAX == 60000
QUEUE_LEN == 16

(* Bounds of the model *)

\* Producers of the main specification submit only while fewer than
\* MaxPending commands wait in the queue (slow users, fast supervisor).
MaxPending == 1
\* A payload above every clamp limit, standing for the large uint32 values.
BigPayload == 2147483646

----------------------------------------------------------------------------
(* Helpers of main.cpp, as functions of the supervisor's view m: the g_*   *)
(* variables, the two output pins, the engine, and the calls made so far.  *)

\* A mis-ordered clamp: tests the upper limit only.
clamp_u32_nolow(v, lo, hi) == IF v > hi THEN hi ELSE v

clamp_u32(v, lo, hi) ==
    IF v < lo THEN lo
    ELSE IF v > hi THEN hi
    ELSE v

\* setup() halts when stepperConnectToPin fails, so the tasks only ever run
\* with an attached stepper.
stepper == TRUE

Call(m, name) == [m EXCEPT !.calls = Append(@, name)]

isRunning(m) == m.running

stopMove(m) ==
    Call([m EXCEPT !.stopping = m.running], "stopMove")

runForward(m) ==
    Call([m EXCEPT !.running = TRUE, !.stopping = FALSE, !.eDir = 0], "runForward")

runBackward(m) ==
    Call([m EXCEPT !.running = TRUE, !.stopping = FALSE, !.eDir = 1], "runBackward")

setSpeedInHz(m, v) == Call([m EXCEPT !.eSpeed = v], "setSpeedInHz")

setAcceleration(m, v) == Call([m EXCEPT !.eAccel = v], "setAcceleration")

applyEnablePin(m) ==
    Call([m EXCEPT !.pinEn = IF m.en = 1 THEN 0 ELSE 1], "writeEnPin")

applyDirPin(m) ==
    Call([m EXCEPT !.pinDir = IF m.dir = 1 THEN 1 ELSE 0], "writeDirPin")

applyParamsToStepper(m) ==
    IF ~stepper THEN m
    ELSE setAcceleration(setSpeedInHz(m, clamp_u32(m.userFreq, 1, FREQ_MAX)),
                         clamp_u32(m.accel, 1, ACCEL_MAX))

applyRunDirectionToUpdateSpeed(m) ==
    IF ~stepper THEN m
    ELSE IF ~m.runReq THEN m
    ELSE IF m.dir = 1 THEN runBackward(m)
    ELSE runForward(m)

\* Start without the enable/alarm guard.
requestStart_noguard(m) ==
    applyRunDirectionToUpdateSpeed([applyParamsToStepper(m) EXCEPT !.runReq = TRUE])

requestStart(m) ==
    IF ~stepper \/ m.en = 0 \/ m.alarm THEN m
    ELSE applyRunDirectionToUpdateSpeed([applyParamsToStepper(m) EXCEPT !.runReq = TRUE])

\* A stop that keeps the run intent.
requestStop_keepintent(m) ==
    IF stepper THEN stopMove(m) ELSE m

\* A stop that does nothing unless the engine runs.
requestStop_ifrunning(m) ==
    IF stepper /\ isRunning(m) THEN stopMove([m EXCEPT !.runReq = FALSE]) ELSE m

requestStop(m) ==
    LET m1 == [m EXCEPT !.runReq = FALSE]
    IN  IF stepper THEN stopMove(m1) ELSE m1

\* A direction change without the test for the direction already applied.
requestDir_norepeat(m, d) ==
    LET newDir == IF d # 0 THEN 1 ELSE 0
        m1 == [m EXCEPT !.dirNext = newDir]
    IN  IF stepper /\ isRunning(m1)
        THEN stopMove([m1 EXCEPT !.dirPend = TRUE])
        ELSE LET m2 == applyDirPin([m1 EXCEPT !.dir = newDir])
             IN  IF m2.runReq THEN requestStart(m2) ELSE m2

\* A direction change that does not wait for the engine.
requestDir_nowait(m, d) ==
    LET newDir == IF d # 0 THEN 1 ELSE 0
        m2 == applyDirPin([m EXCEPT !.dirNext = newDir, !.dir = newDir])
    IN  IF newDir = m.dir THEN m
        ELSE IF m2.runReq THEN requestStart(m2) ELSE m2

requestDir(m, d) ==
    LET newDir == IF d # 0 THEN 1 ELSE 0
        m1 == [m EXCEPT !.dirNext = newDir]
    IN  IF newDir = m.dir THEN m
        ELSE IF stepper /\ isRunning(m1)
             THEN stopMove([m1 EXCEPT !.dirPend = TRUE])
             ELSE LET m2 == applyDirPin([m1 EXCEPT !.dir = newDir])
                  IN  IF m2.runReq THEN requestStart(m2) ELSE m2

----------------------------------------------------------------------------
(* Commands *)

Cmd(t, a, b) == [type |-> t, a |-> a, b |-> b]

NoCmd == Cmd("none", 0, 0)

\* What the console user can type: payloads go through strtoul unclamped.
\* Neither producer ever sends CMD_STATUS: "status" and /api/status are
\* answered from the globals.
UserCmds ==
    {Cmd("CMD_START", 0, 0), Cmd("CMD_STOP", 0, 0),
     Cmd("CMD_FREQ", 20000, 0), Cmd("CMD_ACCEL", 50000, 0),
     Cmd("CMD_DIR", 0, 0), Cmd("CMD_DIR", 1, 0),
     Cmd("CMD_EN", 0, 0), Cmd("CMD_EN", 1, 0),
     Cmd("CMD_RAMP", 20000, 1000)}

\* The HTTP handlers normalise the arguments before qSend; there is no
\* handler that sends CMD_STATUS either.
HttpCmd(c) ==
    CASE c.type = "CMD_FREQ"  -> Cmd(c.type, clamp_u32(c.a, 1, FREQ_MAX), 0)
      [] c.type = "CMD_ACCEL" -> Cmd(c.type, clamp_u32(c.a, 1, ACCEL_MAX), 0)
      [] c.type = "CMD_DIR"   -> Cmd(c.type, IF c.a # 0 THEN 1 ELSE 0, 0)
      [] c.type = "CMD_EN"    -> Cmd(c.type, IF c.a # 0 THEN 1 ELSE 0, 0)
      [] c.type = "CMD_RAMP"  -> Cmd(c.type, clamp_u32(c.a, 1, FREQ_MAX),
                                     clamp_u32(c.b, RAMP_MS_MIN, RAMP_MS_MAX))
      [] OTHER                -> Cmd(c.type, 0, 0)

----------------------------------------------------------------------------
(* State *)

Cur ==
    [userFreq |-> g_userFreq, accel |-> g_accel, dir |-> g_dir, en |-> g_en,
     alarm |-> g_alarm, runReq |-> g_runReq, dirPend |-> g_dirPend,
     dirNext |-> g_dirNext, pinDir |-> pinDir, pinEn |-> pinEn,
     running |-> engRunning, stopping |-> engStopping, eDir |-> engDir,
     eSpeed |-> engSpeed, eAccel |-> engAccel, calls |-> <<>>]

Event(kind, cmd, al) == [kind |-> kind, cmd |-> cmd, al |-> al]

IsCmd(ev, t) == ev.kind = "cmd" /\ ev.cmd.type = t

\* History of interrupted run intents, for the statements about resuming.
\*   alarm: an alarm rising edge was polled while runReq and enabled, and
\*          neither a Stop nor a SetEnable(0) has been applied since;
\*   dis:   SetEnable(0) was applied while the engine ran with runReq and no
\*          alarm, and no Start, Stop or Ramp has been applied and no alarm
\*          has been latched since.
NextHold(h, m, ev) ==
    LET rising  == ev.kind = "poll" /\ ev.al /\ ~m.alarm
        falling == ev.kind = "poll" /\ ~ev.al /\ m.alarm
        en0     == IsCmd(ev, "CMD_EN") /\ ev.cmd.a = 0
        en1     == IsCmd(ev, "CMD_EN") /\ ev.cmd.a # 0
    IN  [alarm |-> IF rising THEN m.runReq /\ m.en = 1
                   ELSE IF falling \/ en0 \/ IsCmd(ev, "CMD_STOP") THEN FALSE
                   ELSE h.alarm,
         dis   |-> IF en0 /\ m.en = 1 THEN m.running /\ m.runReq /\ ~m.alarm
                   ELSE IF en1 \/ rising \/ IsCmd(ev, "CMD_START")
                           \/ IsCmd(ev, "CMD_STOP") \/ IsCmd(ev, "CMD_RAMP") THEN FALSE
                   ELSE h.dis]

\* The history of the queue is kept only where fifo.on is set.
NoHistory == [on |-> FALSE, sent |-> <<>>, applied |-> <<>>]

LogSent(f, c) == IF f.on THEN [f EXCEPT !.sent = Append(@, c)] ELSE f

LogApplied(f, ev) ==
    IF f.on /\ ev.kind = "cmd" THEN [f EXCEPT !.applied = Append(@, ev.cmd)] ELSE f

\* A StepTask step ev that turns the view Cur into m.
Commit(ev, m) ==
    /\ last' = ev
    /\ hold' = NextHold(hold, Cur, ev)
    /\ preHold' = hold
    /\ g_userFreq' = m.userFreq
    /\ g_accel' = m.accel
    /\ g_dir' = m.dir
    /\ g_en' = m.en
    /\ g_alarm' = m.alarm
    /\ g_runReq' = m.runReq
    /\ g_dirPend' = m.dirPend
    /\ g_dirNext' = m.dirNext
    /\ pinDir' = m.pinDir
    /\ pinEn' = m.pinEn
    /\ engRunning' = m.running
    /\ engStopping' = m.stopping
    /\ engDir' = m.eDir
    /\ engSpeed' = m.eSpeed
    /\ engAccel' = m.eAccel
    /\ calls' = m.calls
    /\ pre' = Cur
    /\ fifo' = LogApplied(fifo, ev)

\* A start-up that leaves the driver disabled.
Init_disabled ==
    /\ g_userFreq = 10000
    /\ g_accel = 200000
    /\ g_dir = 0
    /\ g_en = 0
    /\ g_alarm = FALSE
    /\ g_runReq = FALSE
    /\ g_dirPend = FALSE
    /\ g_dirNext = 0
    /\ pinDir = 0
    /\ pinEn = 1
    /\ engRunning = FALSE
    /\ engStopping = FALSE
    /\ engDir = 0
    /\ engSpeed = 10000
    /\ engAccel = 200000
    /\ qCmd = <<>>
    /\ pc = "drain"
    /\ calls = <<>>
    /\ last = Event("init", NoCmd, FALSE)
    /\ pre = Cur
    /\ hold = [alarm |-> FALSE, dis |-> FALSE]
    /\ preHold = hold
    /\ httpResp = "none"
    /\ consWait = NoCmd
    /\ fifo = NoHistory

\* The globals' initialisers and setup(): direction pin LOW, enable pin LOW
\* (driver enabled), parameters pushed to the engine, queue created empty.
Init ==
    /\ g_userFreq = 10000
    /\ g_accel = 200000
    /\ g_dir = 0
    /\ g_en = 1
    /\ g_alarm = FALSE
    /\ g_runReq = FALSE
    /\ g_dirPend = FALSE
    /\ g_dirNext = 0
    /\ pinDir = 0
    /\ pinEn = 0
    /\ engRunning = FALSE
    /\ engStopping = FALSE
    /\ engDir = 0
    /\ engSpeed = 10000
    /\ engAccel = 200000
    /\ qCmd = <<>>
    /\ pc = "drain"
    /\ calls = <<>>
    /\ last = Event("init", NoCmd, FALSE)
    /\ pre = Cur
    /\ hold = [alarm |-> FALSE, dis |-> FALSE]
    /\ preHold = hold
    /\ httpResp = "none"
    /\ consWait = NoCmd
    /\ fifo = NoHistory

----------------------------------------------------------------------------
(* StepTask: the body of each case of the switch, on the view m *)

doStart(m, c) == requestStart(m)

doStop(m, c) == requestStop(m)

doFreq(m, c) ==
    LET m1 == applyParamsToStepper([m EXCEPT !.userFreq = clamp_u32(c.a, 1, FREQ_MAX)])
    IN  IF stepper /\ isRunning(m1) THEN applyRunDirectionToUpdateSpeed(m1) ELSE m1

doAccel(m, c) ==
    LET m1 == applyParamsToStepper([m EXCEPT !.accel = clamp_u32(c.a, 1, ACCEL_MAX)])
    IN  IF stepper /\ isRunning(m1) THEN applyRunDirectionToUpdateSpeed(m1) ELSE m1

doDir(m, c) == requestDir(m, IF c.a # 0 THEN 1 ELSE 0)

doEn(m, c) ==
    LET m1 == applyEnablePin([m EXCEPT !.en = IF c.a # 0 THEN 1 ELSE 0])
    IN  IF m1.en = 0 THEN requestStop(m1)
        ELSE IF m1.runReq /\ ~m1.alarm THEN requestStart(m1)
        ELSE m1

\* The division done before the scaling to Hz per second.
rampAcc_nomillis(m, target, ms) ==
    LET cur  == m.userFreq
        diff == IF target > cur THEN target - cur ELSE cur - target
    IN  IF diff = 0 THEN m.accel ELSE (diff \div ms) * 1000

\* No special case for a ramp to the current frequency.
rampAcc_nodelta(m, target, ms) ==
    LET cur  == m.userFreq
        diff == IF target > cur THEN target - cur ELSE cur - target
    IN  (diff * 1000) \div ms

\* The rate of a ramp: |target - cur| * 1000 / ms, integer division.
rampAcc(m, target, ms) ==
    LET cur  == m.userFreq
        diff == IF target > cur THEN target - cur ELSE cur - target
    IN  IF diff = 0 THEN m.accel ELSE (diff * 1000) \div ms

doRamp(m, c) ==
    LET target == clamp_u32(c.a, 1, FREQ_MAX)
        ms     == clamp_u32(c.b, RAMP_MS_MIN, RAMP_MS_MAX)
        acc    == rampAcc(m, target, ms)
        m1 == applyParamsToStepper(
                  [m EXCEPT !.userFreq = target, !.accel = clamp_u32(acc, 1, ACCEL_MAX)])
        m2 == IF stepper /\ isRunning(m1) THEN applyRunDirectionToUpdateSpeed(m1) ELSE m1
    IN  IF m2.en = 1 /\ ~m2.alarm THEN requestStart(m2) ELSE m2

\* The drain loop removes the newest command of the queue, not the oldest.
Receive_newest(t) ==
    /\ pc = "drain"
    /\ qCmd # <<>>
    /\ Head(qCmd).type = t
    /\ qCmd' = SubSeq(qCmd, 1, Len(qCmd) - 1)
    /\ UNCHANGED <<pc, httpResp, consWait>>

\* One iteration of the drain loop: xQueueReceive took a command of type t.
Receive(t) ==
    /\ pc = "drain"
    /\ qCmd # <<>>
    /\ Head(qCmd).type = t
    /\ qCmd' = Tail(qCmd)
    /\ UNCHANGED <<pc, httpResp, consWait>>

ApplyStart  == Receive("CMD_START")  /\ Commit(Event("cmd", Head(qCmd), FALSE), doStart(Cur, Head(qCmd)))
ApplyStop   == Receive("CMD_STOP")   /\ Commit(Event("cmd", Head(qCmd), FALSE), doStop(Cur, Head(qCmd)))
ApplyFreq   == Receive("CMD_FREQ")   /\ Commit(Event("cmd", Head(qCmd), FALSE), doFreq(Cur, Head(qCmd)))
ApplyAccel  == Receive("CMD_ACCEL")  /\ Commit(Event("cmd", Head(qCmd), FALSE), doAccel(Cur, Head(qCmd)))
ApplyDir    == Receive("CMD_DIR")    /\ Commit(Event("cmd", Head(qCmd), FALSE), doDir(Cur, Head(qCmd)))
ApplyEn     == Receive("CMD_EN")     /\ Commit(Event("cmd", Head(qCmd), FALSE), doEn(Cur, Head(qCmd)))
ApplyRamp   == Receive("CMD_RAMP")   /\ Commit(Event("cmd", Head(qCmd), FALSE), doRamp(Cur, Head(qCmd)))
ApplyStatus == Receive("CMD_STATUS") /\ Commit(Event("cmd", Head(qCmd), FALSE), Cur)

\* xQueueReceive found the queue empty: the drain loop ends.
DrainDone ==
    /\ pc = "drain"
    /\ qCmd = <<>>
    /\ Commit(Event("drained", NoCmd, FALSE), Cur)
    /\ pc' = "poll"
    /\ UNCHANGED <<qCmd, httpResp, consWait>>

\* The alarm poll, when 10 ms have passed: al is what readAlarm() returns,
\* the level of PIN_AL at that moment.
doPoll(m, al) ==
    IF al # m.alarm
    THEN LET m1 == [m EXCEPT !.alarm = al]
         IN  IF m1.alarm THEN requestStop(m1)
             ELSE IF m1.runReq /\ m1.en = 1 THEN requestStart(m1)
             ELSE m1
    ELSE m

PollAlarm ==
    /\ pc = "poll"
    /\ \E al \in BOOLEAN : Commit(Event("poll", NoCmd, al), doPoll(Cur, al))
    /\ pc' = "dirchk"
    /\ UNCHANGED <<qCmd, httpResp, consWait>>

\* Fewer than 10 ms since the last poll.
PollSkip ==
    /\ pc = "poll"
    /\ Commit(Event("nopoll", NoCmd, FALSE), Cur)
    /\ pc' = "dirchk"
    /\ UNCHANGED <<qCmd, httpResp, consWait>>

\* The deferred direction change, then vTaskDelay and the next iteration.
doDirCheck(m) ==
    IF m.dirPend /\ stepper /\ ~isRunning(m)
    THEN LET m1 == applyDirPin([m EXCEPT !.dirPend = FALSE, !.dir = m.dirNext])
         IN  IF m1.runReq /\ m1.en = 1 /\ ~m1.alarm THEN requestStart(m1) ELSE m1
    ELSE m

DirCheck ==
    /\ pc = "dirchk"
    /\ Commit(Event("dirchk", NoCmd, FALSE), doDirCheck(Cur))
    /\ pc' = "drain"
    /\ UNCHANGED <<qCmd, httpResp, consWait>>

----------------------------------------------------------------------------
(* The engine's own progress *)

\* The deceleration started by stopMove() ends: isRunning() turns false.
EngineStopDone ==
    /\ engRunning
    /\ engStopping
    /\ engRunning' = FALSE
    /\ engStopping' = FALSE
    /\ UNCHANGED <<motionVars, pinVars, engDir, engSpeed, engAccel, qCmd, pc,
                   ghostVars, httpResp, consWait, fifo>>

----------------------------------------------------------------------------
(* Producers *)

\* ConsoleTask's send: xQueueSend(qCmd, &c, portMAX_DELAY) waits for a free
\* slot, then appends; the result is not looked at.  What the console does
\* with consWait is said by the action that uses send.
send(c) ==
    /\ Len(qCmd) < QUEUE_LEN
    /\ qCmd' = Append(qCmd, c)
    /\ fifo' = LogSent(fifo, c)
    /\ UNCHANGED <<motionVars, pinVars, engVars, pc, ghostVars, httpResp>>

\* A full queue overwrites its newest entry instead of refusing.
qSend_overwrite(c) ==
    /\ httpResp = "none"
    /\ qCmd' = IF Len(qCmd) < QUEUE_LEN THEN Append(qCmd, c)
               ELSE [qCmd EXCEPT ![QUEUE_LEN] = c]
    /\ httpResp' = "ok"
    /\ fifo' = LogSent(fifo, c)
    /\ UNCHANGED <<motionVars, pinVars, engVars, pc, ghostVars, consWait>>

\* A command handler that also stores a frequency into g_userFreq itself.
qSend_direct(c) ==
    /\ httpResp = "none"
    /\ IF Len(qCmd) < QUEUE_LEN
       THEN /\ qCmd' = Append(qCmd, c)
            /\ httpResp' = "ok"
            /\ fifo' = LogSent(fifo, c)
       ELSE /\ qCmd' = qCmd
            /\ httpResp' = "err"
            /\ fifo' = fifo
    /\ g_userFreq' = IF c.type = "CMD_FREQ" THEN c.a ELSE g_userFreq
    /\ UNCHANGED <<g_accel, g_dir, g_en, g_alarm, g_runReq, g_dirPend, g_dirNext,
                   pinVars, engVars, pc, ghostVars, consWait>>

\* A command handler of the web server: xQueueSend(qCmd, &c, 0) == pdTRUE
\* appends, or fails at once when the queue is full, and the handler answers
\* "ok" or "err" accordingly.  The server handles one request at a time.
qSend(c) ==
    /\ httpResp = "none"
    /\ IF Len(qCmd) < QUEUE_LEN
       THEN /\ qCmd' = Append(qCmd, c)
            /\ httpResp' = "ok"
            /\ fifo' = LogSent(fifo, c)
       ELSE /\ qCmd' = qCmd
            /\ httpResp' = "err"
            /\ fifo' = fifo
    /\ UNCHANGED <<motionVars, pinVars, engVars, pc, ghostVars, consWait>>

\* The client has the answer; the server takes the next request.
HttpDone ==
    /\ httpResp # "none"
    /\ httpResp' = "none"
    /\ UNCHANGED <<motionVars, pinVars, engVars, qCmd, pc, ghostVars, consWait, fifo>>

\* GET /api/status: the handler reads the g_* variables and the engine's
\* isRunning() and answers with them; it sends no command.
handleStatus ==
    /\ httpResp = "none"
    /\ httpResp' = "status"
    /\ UNCHANGED <<motionVars, pinVars, engVars, qCmd, pc, ghostVars, consWait, fifo>>

ConsoleTask ==
    /\ Len(qCmd) < MaxPending
    /\ \E c \in UserCmds : send(c)
    /\ UNCHANGED consWait

WebTask ==
    /\ Len(qCmd) < MaxPending
    /\ \E c \in UserCmds : qSend(HttpCmd(c))

----------------------------------------------------------------------------
StepTask ==
    \/ ApplyStart \/ ApplyStop \/ ApplyFreq \/ ApplyAccel
    \/ ApplyDir \/ ApplyEn \/ ApplyRamp
    \/ DrainDone \/ PollAlarm \/ PollSkip \/ DirCheck

Next == StepTask \/ EngineStopDone \/ ConsoleTask \/ WebTask \/ handleStatus \/ HttpDone

Spec == Init /\ [][Next]_vars

----------------------------------------------------------------------------
(* The same tasks with a console user who only types numbers:             *)
(* set-frequency, set-acceleration and ramp commands over payloads below,  *)
(* inside and above every limit, which reach StepTask as typed.            *)

FreqPayloads  == {0, 20000, BigPayload}
AccelPayloads == {0, 50000, BigPayload}
RampPayloads  == {<<20000, 1000>>, <<20000, BigPayload>>, <<BigPayload, 0>>, <<30, BigPayload>>}

NumCmds ==
    {Cmd("CMD_FREQ", f, 0) : f \in FreqPayloads}
    \cup {Cmd("CMD_ACCEL", a, 0) : a \in AccelPayloads}
    \cup {Cmd("CMD_RAMP", r[1], r[2]) : r \in RampPayloads}

ConsoleNum ==
    /\ Len(qCmd) < MaxPending
    /\ \E c \in NumCmds : send(c)
    /\ UNCHANGED consWait

NextNum ==
    \/ ApplyFreq \/ ApplyAccel \/ ApplyRamp
    \/ DrainDone \/ PollAlarm \/ PollSkip \/ DirCheck
    \/ EngineStopDone \/ ConsoleNum

SpecNum == Init /\ [][NextNum]_vars

----------------------------------------------------------------------------
(* The same tasks with an HTTP client that sends stop requests as fast as  *)
(* it likes, so that the queue fills up, beside a console user who sends   *)
(* start.                                                                  *)

ConsoleQ ==
    /\ Len(qCmd) < MaxPending
    /\ send(Cmd("CMD_START", 0, 0))
    /\ UNCHANGED consWait

WebQ == qSend(HttpCmd(Cmd("CMD_STOP", 0, 0)))

NextQ ==
    \/ ApplyStart \/ ApplyStop
    \/ DrainDone \/ PollAlarm \/ PollSkip \/ DirCheck
    \/ EngineStopDone \/ ConsoleQ \/ WebQ \/ HttpDone

SpecQ == Init /\ [][NextQ]_vars

----------------------------------------------------------------------------
(* The same tasks with the history of the queue kept, and ConsoleTask's    *)
(* blocking xQueueSend in its two steps: the call (the task then waits as  *)
(* long as the queue is full) and its return.  The console user types      *)
(* "start", the HTTP client requests /api/stop; both stop after MaxSent    *)
(* commands have been enqueued, the console after MaxConsole of its own.   *)
(* The run begins where a burst of the HTTP client has left one slot of    *)
(* the queue free before StepTask received anything (a state that SpecQ    *)
(* reaches).                                                               *)

MaxSent == 18
MaxConsole == 1

Count(q, t) == Cardinality({i \in 1..Len(q) : q[i].type = t})

Burst == [i \in 1..(QUEUE_LEN - 1) |-> HttpCmd(Cmd("CMD_STOP", 0, 0))]

\* Init with the history kept, at a queue that holds q.
InitHistory(q) ==
    /\ g_userFreq = 10000
    /\ g_accel = 200000
    /\ g_dir = 0
    /\ g_en = 1
    /\ g_alarm = FALSE
    /\ g_runReq = FALSE
    /\ g_dirPend = FALSE
    /\ g_dirNext = 0
    /\ pinDir = 0
    /\ pinEn = 0
    /\ engRunning = FALSE
    /\ engStopping = FALSE
    /\ engDir = 0
    /\ engSpeed = 10000
    /\ engAccel = 200000
    /\ qCmd = q
    /\ pc = "drain"
    /\ calls = <<>>
    /\ last = Event("init", NoCmd, FALSE)
    /\ pre = Cur
    /\ hold = [alarm |-> FALSE, dis |-> FALSE]
    /\ preHold = hold
    /\ httpResp = "none"
    /\ consWait = NoCmd
    /\ fifo = [on |-> TRUE, sent |-> q, applied |-> <<>>]

InitFifo == InitHistory(Burst)

\* send() is called: xQueueSend(qCmd, &c, portMAX_DELAY) begins.
ConsoleSendCall ==
    /\ consWait = NoCmd
    /\ Len(fifo.sent) < MaxSent
    /\ Count(fifo.sent, "CMD_START") < MaxConsole
    /\ consWait' = Cmd("CMD_START", 0, 0)
    /\ UNCHANGED <<motionVars, pinVars, engVars, qCmd, pc, ghostVars, httpResp, fifo>>

\* xQueueSend returns: a slot was free and the command is in the queue.
ConsoleSendReturn ==
    /\ consWait # NoCmd
    /\ send(consWait)
    /\ consWait' = NoCmd

WebFifo ==
    /\ Len(fifo.sent) + (IF consWait = NoCmd THEN 0 ELSE 1) < MaxSent
    /\ qSend(HttpCmd(Cmd("CMD_STOP", 0, 0)))

StepTaskFifo ==
    \/ ApplyStart \/ ApplyStop
    \/ DrainDone \/ PollAlarm \/ PollSkip \/ DirCheck

NextFifo ==
    \/ ApplyStart \/ ApplyStop
    \/ DrainDone \/ PollAlarm \/ PollSkip \/ DirCheck
    \/ EngineStopDone \/ ConsoleSendCall \/ ConsoleSendReturn \/ WebFifo \/ HttpDone

\* StepTask is a task of the highest priority in use, alone on its core,
\* that sleeps one tick per iteration: it always takes its next step.  A
\* task blocked in xQueueSend is woken when a slot is free.
SpecFifo ==
    /\ InitFifo
    /\ [][NextFifo]_vars
    /\ WF_vars(StepTaskFifo)
    /\ WF_vars(ConsoleSendReturn)

----------------------------------------------------------------------------
(* The same tasks with the history of the queue kept, from the start, and  *)
(* a console user who types MaxScript commands, each a start or a          *)
(* direction.                                                              *)

MaxScript == 3

ScriptCmds == {Cmd("CMD_START", 0, 0), Cmd("CMD_DIR", 0, 0), Cmd("CMD_DIR", 1, 0)}

InitScript == InitHistory(<<>>)

ConsoleScript ==
    /\ Len(fifo.sent) < MaxScript
    /\ Len(qCmd) < MaxPending
    /\ \E c \in ScriptCmds : send(c)
    /\ UNCHANGED consWait

NextScript ==
    \/ ApplyStart \/ ApplyDir
    \/ DrainDone \/ PollAlarm \/ PollSkip \/ DirCheck
    \/ EngineStopDone \/ ConsoleScript

SpecScript == InitScript /\ [][NextScript]_vars

----------------------------------------------------------------------------
(* The same tasks under fair scheduling, with a console user who starts    *)
(* the motor, changes its direction and its speed and re-enables the       *)
(* driver.  StepTask is a task of the highest priority in use, alone on    *)
(* its core, that sleeps one tick per iteration, so it always takes its    *)
(* next step; a deceleration started by stopMove() and not cancelled comes *)
(* to its end.  Nothing is assumed of the console user.                    *)

LiveCmds ==
    {Cmd("CMD_START", 0, 0), Cmd("CMD_DIR", 0, 0), Cmd("CMD_DIR", 1, 0),
     Cmd("CMD_FREQ", 20000, 0), Cmd("CMD_EN", 1, 0)}

ConsoleLive ==
    /\ Len(qCmd) < MaxPending
    /\ \E c \in LiveCmds : send(c)
    /\ UNCHANGED consWait

StepTaskLive ==
    \/ ApplyStart \/ ApplyFreq \/ ApplyDir \/ ApplyEn
    \/ DrainDone \/ PollAlarm \/ PollSkip \/ DirCheck

NextLive ==
    \/ ApplyStart \/ ApplyFreq \/ ApplyDir \/ ApplyEn
    \/ DrainDone \/ PollAlarm \/ PollSkip \/ DirCheck
    \/ EngineStopDone \/ ConsoleLive

SpecLive ==
    /\ Init
    /\ [][NextLive]_vars
    /\ WF_vars(StepTaskLive)
    /\ WF_vars(EngineStopDone)

----------------------------------------------------------------------------
(* Properties.  They speak about the last StepTask step through last (what *)
(* it was), pre (the state before it) and calls (what it called), which    *)
(* the other tasks and the engine leave alone.                             *)

HasCall(name) == \E i \in 1..Len(calls) : calls[i] = name

HasRun == HasCall("runForward") \/ HasCall("runBackward")

RunCallOf(d) == IF d = 1 THEN "runBackward" ELSE "runForward"

\* clamp(v, lo, hi) as the statements use it.
ClampTo(v, lo, hi) == IF v <= lo THEN lo ELSE IF v >= hi THEN hi ELSE v

Abs(x) == IF x < 0 THEN -x ELSE x

\* C1: the supervisor writes the direction pin only in a step that found the
\* engine not running, so the pin never changes while the engine reports
\* running.
C1_DirPinOnlyWhenStopped ==
    /\ HasCall("writeDirPin") => ~pre.running
    /\ pinDir # pre.pinDir => ~pre.running

\* A deferred direction change reaches the pin once the engine has stopped.
C1_Witness ==
    /\ last.kind = "dirchk"
    /\ pre.dirPend
    /\ HasCall("writeDirPin")
    /\ pinDir = 1
    /\ pre.pinDir = 0

\* C2: every run call is made with the driver enabled and no alarm latched.
\* (Each handler assigns g_en or g_alarm before it calls anything, so their
\* values after the step are their values at the call.)
C2_RunOnlyEnabledNoAlarm == HasRun => (g_en = 1 /\ ~g_alarm)

\* The run re-issued in the new direction when a deferred change completes.
C2_Witness ==
    /\ last.kind = "dirchk"
    /\ HasCall("runBackward")
    /\ g_en = 1
    /\ ~g_alarm

\* C3: an alarm rising edge polled while runReq and enabled stops the engine
\* and keeps runReq; with no Stop and no SetEnable(0) since, the poll that
\* sees the falling edge re-issues the run call in the current direction
\* with the stored frequency and acceleration.
C3_AlarmKeepsRunIntent ==
    /\ (last.kind = "poll" /\ last.al /\ ~pre.alarm /\ pre.runReq /\ pre.en = 1)
          => (HasCall("stopMove") /\ g_runReq)
    /\ (last.kind = "poll" /\ ~last.al /\ pre.alarm /\ preHold.alarm)
          => (HasCall(RunCallOf(g_dir)) /\ engSpeed = g_userFreq /\ engAccel = g_accel)

\* C4: a Start applied while the alarm is latched and the driver enabled
\* makes no run call and leaves runReq true.
C4_StartUnderAlarmKeepsIntent ==
    (last.kind = "cmd" /\ last.cmd.type = "CMD_START" /\ pre.alarm /\ pre.en = 1)
        => (~HasRun /\ g_runReq)

\* C5: SetEnable(0) applied while the engine runs with runReq and no alarm
\* stops the engine; a SetEnable(1) after it, with no Start, Stop or Ramp
\* and no alarm in between, re-issues the run call at the stored frequency
\* and acceleration.
C5_RunIntentSurvivesDisable ==
    /\ (last.kind = "cmd" /\ last.cmd.type = "CMD_EN" /\ last.cmd.a = 0
            /\ pre.running /\ pre.runReq /\ ~pre.alarm)
          => HasCall("stopMove")
    /\ (last.kind = "cmd" /\ last.cmd.type = "CMD_EN" /\ last.cmd.a # 0
            /\ preHold.dis /\ ~g_alarm)
          => (HasCall(RunCallOf(g_dir)) /\ engRunning
              /\ engSpeed = g_userFreq /\ engAccel = g_accel)

C7_Clamped ==
    /\ (last.kind = "cmd" /\ last.cmd.type = "CMD_FREQ")
          => g_userFreq = ClampTo(last.cmd.a, 1, 400000)
    /\ (last.kind = "cmd" /\ last.cmd.type = "CMD_ACCEL")
          => g_accel = ClampTo(last.cmd.a, 1, 2000000)
    /\ 1 <= g_userFreq /\ g_userFreq <= 400000
    /\ 1 <= g_accel /\ g_accel <= 2000000
    /\ 1 <= engSpeed /\ engSpeed <= 400000
    /\ 1 <= engAccel /\ engAccel <= 2000000

\* A frequency above the limit and one below it have been clamped.
C7_Witness ==
    /\ last.kind = "cmd"
    /\ last.cmd.type = "CMD_FREQ"
    /\ last.cmd.a > 400000
    /\ g_userFreq = 400000
    /\ pre.userFreq = 1
    /\ engSpeed = 400000

RampTarget == ClampTo(last.cmd.a, 1, 400000)
RampMs     == ClampTo(last.cmd.b, 50, 60000)
RampDelta  == Abs(RampTarget - pre.userFreq)
IsRamp     == last.kind = "cmd" /\ last.cmd.type = "CMD_RAMP"

\* C8 as stated: a ramp with delta # 0 stores the target and the rate
\* clamp(round(delta * 1000 / ms), 1, 2000000), rounded to nearest.
C8_RampRateRounded ==
    (IsRamp /\ RampDelta # 0)
        => /\ g_userFreq = RampTarget
           /\ g_accel = ClampTo((2 * RampDelta * 1000 + RampMs) \div (2 * RampMs),
                                1, 2000000)

\* C8, amended: the rate is clamp(floor(delta * 1000 / ms), 1, 2000000).
C8_RampRateFloor ==
    (IsRamp /\ RampDelta # 0)
        => /\ g_userFreq = RampTarget
           /\ g_accel = ClampTo((RampDelta * 1000) \div RampMs, 1, 2000000)

\* A ramp whose exact rate, 10000 * 1000 / 60000 = 166.67, is no integer.
C8_Witness ==
    /\ IsRamp
    /\ pre.userFreq = 10000
    /\ RampTarget = 20000
    /\ RampMs = 60000
    /\ g_accel = 166

\* C9: a ramp to the current frequency leaves frequency and acceleration as
\* they were and, when enabled with no alarm, still issues a Start: runReq
\* is true and a run call is made, whether or not the motor ran before.
C9_ZeroDeltaRamp ==
    (IsRamp /\ RampDelta = 0)
        => /\ g_userFreq = pre.userFreq
           /\ g_accel = pre.accel
           /\ (g_en = 1 /\ ~g_alarm) => (g_runReq /\ HasCall(RunCallOf(g_dir)))

\* Such a ramp starts a motor that stood still, at a rate set by an earlier ramp.
C9_Witness ==
    /\ IsRamp
    /\ RampDelta = 0
    /\ ~pre.running
    /\ ~pre.runReq
    /\ pre.accel = 10000
    /\ g_accel = 10000
    /\ g_runReq
    /\ HasRun

\* C10: the queue never holds more than 16 commands; an HTTP submission to a
\* queue of 16 is answered "err" at once and changes neither the queue nor
\* anything of the supervisor, one to a shorter queue is answered "ok" and
\* appends its command; the queue changes in no other way than by such an
\* append or by StepTask taking its head, and StepTask applies nothing but
\* the head it took, so a rejected command is never applied.
C10_BoundedQueue ==
    /\ [](Len(qCmd) <= 16)
    /\ [][(httpResp = "none" /\ httpResp' # "none")
            => IF Len(qCmd) = 16
               THEN /\ httpResp' = "err"
                    /\ qCmd' = qCmd
                    /\ UNCHANGED <<motionVars, pinVars, engVars, pc, ghostVars>>
               ELSE /\ httpResp' = "ok"
                    /\ Len(qCmd') = Len(qCmd) + 1
                    /\ SubSeq(qCmd', 1, Len(qCmd)) = qCmd
                    /\ UNCHANGED <<motionVars, pinVars, engVars, pc, ghostVars>>]_vars
    /\ [][qCmd' # qCmd
            => \/ /\ Len(qCmd) < 16
                  /\ Len(qCmd') = Len(qCmd) + 1
                  /\ SubSeq(qCmd', 1, Len(qCmd)) = qCmd
                  /\ UNCHANGED <<motionVars, pinVars, engVars, pc, ghostVars>>
               \/ /\ qCmd # <<>>
                  /\ qCmd' = Tail(qCmd)
                  /\ last' = Event("cmd", Head(qCmd), FALSE)]_vars
    /\ [][(last'.kind = "cmd" /\ <<motionVars, pinVars, ghostVars>>' # <<motionVars, pinVars, ghostVars>>)
            => (qCmd # <<>> /\ last'.cmd = Head(qCmd) /\ qCmd' = Tail(qCmd))]_vars

\* The full queue has refused a submission.
C10_Witness ==
    /\ Len(qCmd) = 16
    /\ httpResp = "err"

\* C11: FIFO, exactly once.  The commands enqueued so far, by either
\* producer, are the commands applied so far followed by the queue, in that
\* order; a console command waiting in the blocking send is not given up
\* but appended as it is; under fair scheduling of StepTask the blocking
\* send returns, and the n-th command enqueued is applied, for every n.
C11_FifoExactlyOnce ==
    /\ [](fifo.sent = fifo.applied \o qCmd)
    /\ [][consWait # NoCmd =>
             \/ consWait' = consWait
             \/ consWait' = NoCmd /\ qCmd' = Append(qCmd, consWait)]_vars
    /\ (consWait # NoCmd ~> consWait = NoCmd)
    /\ \A n \in 1..MaxSent : (Len(fifo.sent) >= n ~> Len(fifo.applied) >= n)

\* The console waits in its blocking send at a full queue, after StepTask
\* has applied a command and the HTTP client has taken the freed slot.
C11_Witness ==
    /\ consWait # NoCmd
    /\ Len(qCmd) = QUEUE_LEN
    /\ Len(fifo.applied) >= 1

\* The direction a SetDirection command asks for.
DirOf(c) == IF c.a # 0 THEN 1 ELSE 0

\* C12: the deferred direction change.  A SetDirection to the other
\* direction applied while the engine runs leaves the pin alone and makes
\* the change pending; under fair scheduling of StepTask and of the engine's
\* stop, whatever commands arrive meanwhile, a pending change leads to the
\* engine reporting not-running; the direction check that observes this
\* writes the pin to the pending direction, clears the flag, and issues a
\* run call in the new direction if runReq, enabled and no alarm.
C12_DeferredDirCompletes ==
    /\ [](IsCmd(last, "CMD_DIR") /\ DirOf(last.cmd) # pre.dir /\ pre.running
            => g_dirPend /\ g_dirNext = DirOf(last.cmd) /\ pinDir = pre.pinDir)
    /\ (g_dirPend ~> ~engRunning)
    /\ [](last.kind = "dirchk" /\ pre.dirPend /\ ~pre.running
            => /\ pinDir = pre.dirNext
               /\ g_dir = pre.dirNext
               /\ ~g_dirPend
               /\ (pre.runReq /\ pre.en = 1 /\ ~pre.alarm => HasCall(RunCallOf(pre.dirNext))))

\* The MotionState part of a view.
MotionOf(m) ==
    <<m.userFreq, m.accel, m.dir, m.en, m.alarm, m.runReq, m.dirPend, m.dirNext>>

\* The pins and the engine's latched values of a view.
OutputOf(m) == <<m.pinDir, m.pinEn, m.eDir, m.eSpeed, m.eAccel>>

\* C13: Stop is idempotent and unconditional.  In every reachable state,
\* also disabled, alarmed or with a direction change pending, Stop clears
\* runReq, changes no other MotionState field and makes the one engine call
\* stopMove; a second Stop right after it gives the same state and the same
\* call; and a Stop that has been applied to a state without run intent
\* whose engine was stopped or stopping has changed nothing (the engine has
\* at most finished its stop since).
C13_StopIdempotent ==
    LET c  == Cmd("CMD_STOP", 0, 0)
        m1 == doStop(Cur, c)
        m2 == doStop([m1 EXCEPT !.calls = <<>>], c)
    IN  /\ ~m1.runReq
        /\ MotionOf(m1) = MotionOf([Cur EXCEPT !.runReq = FALSE])
        /\ m1.calls = <<"stopMove">>
        /\ m2 = m1
        /\ IsCmd(last, "CMD_STOP") => ~g_runReq /\ calls = <<"stopMove">>
        /\ IsCmd(last, "CMD_STOP") /\ ~pre.runReq /\ (pre.stopping \/ ~pre.running)
              => /\ MotionOf(Cur) = MotionOf(pre)
                 /\ OutputOf(Cur) = OutputOf(pre)
                 /\ engRunning => pre.running /\ engStopping

\* A second Stop has been applied while the engine was still stopping with
\* a direction change pending and no run intent left.
C13_Witness ==
    /\ IsCmd(last, "CMD_STOP")
    /\ ~pre.runReq /\ pre.stopping /\ pre.dirPend
    /\ engStopping

\* C14: a SetDirection to the direction already applied is a no-op.  The
\* step that applied it, in whatever state (idle, running, stopping for a
\* direction change), changed no MotionState field, wrote no pin, and made
\* no engine call: no stop, no run, and no pending flag newly set.
C14_SameDirNoOp ==
    IsCmd(last, "CMD_DIR") /\ DirOf(last.cmd) = pre.dir
        => /\ MotionOf(Cur) = MotionOf(pre)
           /\ OutputOf(Cur) = OutputOf(pre)
           /\ calls = <<>>

\* SetDirection(d) with d the applied direction has been applied while the
\* engine was stopping for a pending change to the other direction.
C14_Witness ==
    /\ IsCmd(last, "CMD_DIR") /\ DirOf(last.cmd) = pre.dir
    /\ pre.running /\ pre.stopping /\ pre.dirPend /\ pre.dirNext # pre.dir

\* A step of a producer: a command enters the queue, an HTTP handler
\* answers or its answer is delivered, or the console enters or leaves its
\* blocking send.
ProducerStep ==
    \/ Len(qCmd') > Len(qCmd)
    \/ httpResp' # httpResp
    \/ consWait' # consWait

C16_RunIntentImpliesReady == g_runReq => g_en = 1 /\ ~g_alarm

\* An alarm has just been latched over a run intent, and the intent is gone.
C16_Witness ==
    /\ last.kind = "poll" /\ last.al
    /\ pre.runReq /\ ~pre.alarm
    /\ g_alarm /\ ~g_runReq

\* C17: while a direction change is pending no command and no alarm edge
\* makes a run call: a StepTask step that began with the pending flag set
\* and is not the direction check itself has called neither runForward nor
\* runBackward.
C17_NoRunWhilePending ==
    pre.dirPend /\ last.kind \in {"cmd", "poll"} => ~HasRun

\* The places of the SetDirection commands among the commands q, and the
\* direction asked for by the last of them.
DirPlaces(q) == {i \in 1..Len(q) : q[i].type = "CMD_DIR"}

LastDirAsked(q) ==
    DirOf(q[CHOOSE i \in DirPlaces(q) : \A j \in DirPlaces(q) : j <= i])

\* C18: the last SetDirection wins.  Whenever the queue is empty, the
\* engine is not decelerating and no direction change is pending, the
\* applied direction and the pin equal the direction asked for by the
\* SetDirection applied last; and a SetDirection back to the direction that
\* is still applied, while a change to the other one is pending, cancels
\* the pending change.
C18_LastDirectionWins ==
    /\ qCmd = <<>> /\ ~engStopping /\ ~g_dirPend /\ DirPlaces(fifo.applied) # {}
          => g_dir = LastDirAsked(fifo.applied) /\ pinDir = LastDirAsked(fifo.applied)
    /\ IsCmd(last, "CMD_DIR") /\ DirOf(last.cmd) = pre.dir /\ pre.dirPend
          => ~g_dirPend

\* C19: the pending flag is consistent.  While a direction change is
\* pending, the pending direction differs from the applied one, and the
\* engine is stopping or has stopped: the stop issued for the change is
\* still in force until StepTask has seen it complete.
C19_PendingConsistent ==
    g_dirPend => g_dirNext # g_dir /\ (engStopping \/ ~engRunning)

====
